---- MODULE Spec2Model ----
(***************************************************************************)
(* The dispatch loop of the tan language server (src/src/main.rs, run()):  *)
(* one worker takes the inbound messages one at a time, answers the        *)
(* goto-definition and references requests, acknowledges shutdown, and on  *)
(* a workspace/didChangeWatchedFiles notification reads and parses every   *)
(* listed file and publishes its diagnostics.                              *)
(*                                                                         *)
(* The client, the transport threads and the file system are the           *)
(* environment.  The variables pulled, casts, attempts and reads are       *)
(* history variables: they record what run() did and are never read by it. *)
(***************************************************************************)
EXTENDS Integers, Sequences, FiniteSets, TLC

(***************************************************************************)
(* Bounds of the model.                                                    *)
(***************************************************************************)
MaxMsgs == 3      \* messages the client sends in one session
MaxChanges == 2   \* entries in one didChangeWatchedFiles change list
MaxWrites == 1    \* file-system changes made by the environment
MaxTextLen == 3   \* length of the texts the position translation is applied to

(***************************************************************************)
(* Protocol method names (lsp_types METHOD constants used by main.rs).     *)
(***************************************************************************)
GotoDefinition == "textDocument/definition"
References == "textDocument/references"
DidChangeWatchedFiles == "workspace/didChangeWatchedFiles"
PublishDiagnostics == "textDocument/publishDiagnostics"
Shutdown == "shutdown"
Exit == "exit"
FooBar == "foo/bar"
OtherNotification == "$/setTrace"

(***************************************************************************)
(* Source texts.  A text is a sequence of one-byte (ASCII) characters, so  *)
(* the byte offset o denotes the boundary after the first o characters.    *)
(***************************************************************************)
TextOk == <<"(", "a", ")">>
TextOpen == <<"(", "a">>
TextTwo == <<"a", "!", "\n", "!">>
Texts == {TextOk, TextOpen, TextTwo}

Paths == {"/a.tan", "/b.tan"}
Uri(p) == [scheme |-> "file", path |-> p]
Uris == {Uri(p) : p \in Paths}

\* What the file system holds at a path: a readable text, or nothing readable.
File(t) == [readable |-> TRUE, text |-> t]
NoFile == [readable |-> FALSE, text |-> <<>>]
FileStates == {File(t) : t \in Texts} \cup {NoFile}

(***************************************************************************)
(* JSON parameters, abstracted to the fields present in the object and the *)
(* value of its "changes" field.                                           *)
(***************************************************************************)
Params(fs, ch) == [fields |-> fs, changes |-> ch]
NoParams == Params({}, <<>>)
PositionParams == Params({"textDocument", "position"}, <<>>)
ReferenceParams == Params({"textDocument", "position", "context"}, <<>>)

RECURSIVE SeqsUpTo(_, _)
SeqsUpTo(S, n) ==
    IF n = 0 THEN {<<>>}
    ELSE LET shorter == SeqsUpTo(S, n - 1)
         IN  shorter \cup {Append(s, x) : s \in {t \in shorter : Len(t) = n - 1}, x \in S}

ChangeLists == SeqsUpTo(Uris, MaxChanges)
ChangeParams(ch) == Params({"changes"}, ch)

\* serde deserialization of the parameter object into each method's type:
\* it succeeds when every required field is present.
DeserializesAs(method, p) ==
    CASE method = GotoDefinition -> {"textDocument", "position"} \subseteq p.fields
      [] method = References -> {"textDocument", "position", "context"} \subseteq p.fields
      [] method = DidChangeWatchedFiles -> "changes" \in p.fields
      [] OTHER -> TRUE

(***************************************************************************)
(* Inbound messages: lsp_server::Message.                                  *)
(***************************************************************************)
Request(id, method, params) ==
    [kind |-> "Request", id |-> id, method |-> method, params |-> params]
InResponse(id) ==
    [kind |-> "Response", id |-> id, method |-> "", params |-> NoParams]
Notification(method, params) ==
    [kind |-> "Notification", id |-> 0, method |-> method, params |-> params]

\* The requests a client may send, before it gives them an identifier.
RequestShapes ==
    {<<Shutdown, NoParams>>,
     <<GotoDefinition, PositionParams>>, <<GotoDefinition, NoParams>>,
     <<References, ReferenceParams>>, <<References, PositionParams>>,
     <<FooBar, PositionParams>>}
\* A notification of another method may carry parameters that would deserialize
\* as a change list.
NotificationShapes ==
    {<<DidChangeWatchedFiles, ChangeParams(ch)>> : ch \in ChangeLists}
      \cup {<<DidChangeWatchedFiles, NoParams>>, <<Exit, NoParams>>,
            <<OtherNotification, ChangeParams(<<Uri("/a.tan")>>)>>}

VARIABLES
    inbox,      \* connection.receiver: inbound messages not yet taken
    inClosed,   \* the transport has closed the inbound queue (end of input)
    outbox,     \* connection.sender: every message placed on the outbound queue
    outUp,      \* no send has found the outbound queue's receiving end dropped
    fs,         \* the file system: path -> file state
    pc,         \* where run() is
    pending,    \* the rest of event.changes in the loop over the changes
    nextId,     \* the client's next request identifier
    nSent,      \* messages the client has sent
    nWrites,    \* file-system changes so far
    pulled,     \* history: the messages the for loop has taken, in order
    casts,      \* history: the calls of cast
    attempts,   \* history: the calls of sender.send and their outcome
    reads,      \* history: the calls of read_to_string and their outcome
    mainPc,     \* where main() is
    posText,    \* the text a position is translated against
    posOffset,  \* the byte offset translated
    posResult   \* the lsp_types::Position built from them

mainVars == <<mainPc>>
posVars == <<posText, posOffset, posResult>>

vars == <<inbox, inClosed, outbox, outUp, fs, pc, pending, nextId, nSent, nWrites,
          pulled, casts, attempts, reads, mainPc, posText, posOffset, posResult>>

envVars == <<inClosed, fs, nextId, nSent, nWrites>>

srvVars == <<outbox, outUp, pc, pending, pulled, casts, attempts, reads>>

\* No position has been built yet.
NoPosition == [line |-> -1, character |-> -1]

\* main.rs 150-153: main() has initialized the connection and calls run().
RunInit ==
    /\ inbox = <<>>
    /\ inClosed = FALSE
    /\ outbox = <<>>
    /\ outUp = TRUE
    /\ fs = [p \in Paths |-> IF p = "/a.tan" THEN File(TextTwo) ELSE File(TextOk)]
    /\ pc = "recv"
    /\ pending = <<>>
    /\ nextId = 1
    /\ nSent = 0
    /\ nWrites = 0
    /\ pulled = <<>>
    /\ casts = <<>>
    /\ attempts = <<>>
    /\ reads = <<>>
    /\ mainPc = "run"

Init ==
    /\ RunInit
    /\ posText = <<>>
    /\ posOffset = 0
    /\ posResult = NoPosition

(***************************************************************************)
(* tan::range::Position::from(index, input): the line is the number of     *)
(* line terminators strictly before the offset, the column the distance    *)
(* from the start of that line to the offset.                              *)
(***************************************************************************)
RECURSIVE LineStart(_, _)
LineStart(input, index) ==
    IF index = 0 THEN 0
    ELSE IF input[index] = "\n" THEN index
    ELSE LineStart(input, index - 1)

Newlines(input, index) == Cardinality({i \in 1..index : input[i] = "\n"})

Position_from(index, input) ==
    [line |-> Newlines(input, index), col |-> index - LineStart(input, index)]

(***************************************************************************)
(* tan::api::parse_string(input): the parser collaborator, a deterministic *)
(* function of the text.  It answers Ok, or a non-empty ordered list of    *)
(* errors, each a message with a byte range [start, end) of the text.  In  *)
(* this stand-in every "!" is an unexpected token and an unclosed "(" is   *)
(* an unexpected end of input.                                             *)
(***************************************************************************)
ParseError(message, start, end) == [message |-> message, start |-> start, end |-> end]

RECURSIVE TokenErrors(_, _)
TokenErrors(input, i) ==
    IF i > Len(input) THEN <<>>
    ELSE (IF input[i] = "!" THEN <<ParseError("unexpected token", i - 1, i)>> ELSE <<>>)
           \o TokenErrors(input, i + 1)

Count(input, c) == Cardinality({i \in 1..Len(input) : input[i] = c})

FirstOpen(input) == CHOOSE i \in 1..Len(input) :
                        input[i] = "(" /\ \A j \in 1..(i - 1) : input[j] # "("

parse_string(input) ==
    LET errors ==
          TokenErrors(input, 1)
            \o (IF Count(input, "(") > Count(input, ")")
                THEN <<ParseError("unexpected end of input", FirstOpen(input) - 1, Len(input))>>
                ELSE <<>>)
    IN  [ok |-> errors = <<>>, errors |-> errors]

\* std::fs::read_to_string(path) against the file system as it is now.
read_to_string(path) == fs[path]

\* change.uri.path()
Uri_path(uri) == uri.path

\* Mutant: the method is not compared: parameters that deserialize are extracted.
extractIgnoresMethod(msg, method) ==
    IF DeserializesAs(method, msg.params)
    THEN [tag |-> "Ok", id |-> msg.id, req |-> msg]
    ELSE [tag |-> "MethodMismatch", id |-> msg.id, req |-> msg]

\* Mutant: a method mismatch gives the request back without its parameters.
extractConsuming(msg, method) ==
    IF msg.method # method
    THEN [tag |-> "MethodMismatch", id |-> msg.id, req |-> [msg EXCEPT !.params = NoParams]]
    ELSE IF DeserializesAs(method, msg.params)
         THEN [tag |-> "Ok", id |-> msg.id, req |-> msg]
         ELSE [tag |-> "JsonError", id |-> msg.id, req |-> msg]

\* Mutant: parameters that do not deserialize are passed over like a method
\* mismatch instead of being reported as a JSON error.
extractLenient(msg, method) ==
    IF msg.method = method /\ DeserializesAs(method, msg.params)
    THEN [tag |-> "Ok", id |-> msg.id, req |-> msg]
    ELSE [tag |-> "MethodMismatch", id |-> msg.id, req |-> msg]

(***************************************************************************)
(* Request::extract / Notification::extract, and cast (main.rs 12-18).     *)
(***************************************************************************)
extract(msg, method) ==
    IF msg.method # method THEN [tag |-> "MethodMismatch", id |-> msg.id, req |-> msg]
    ELSE IF DeserializesAs(method, msg.params)
         THEN [tag |-> "Ok", id |-> msg.id, req |-> msg]
         ELSE [tag |-> "JsonError", id |-> msg.id, req |-> msg]

cast(req, method) == extract(req, method)

\* main.rs 32 and 48: req.clone()
clone(req) == req

\* Mutant: the shutdown check never recognizes the request.
is_shutdown_never(req) == FALSE

\* Request::is_shutdown, as Connection::handle_shutdown tests it.
is_shutdown(req) == req.method = Shutdown

\* Notification::is_exit
is_exit(msg) == msg.kind = "Notification" /\ msg.method = Exit

(***************************************************************************)
(* Outbound messages built by run().                                       *)
(***************************************************************************)
OkResponse(id, result) ==
    [kind |-> "Response", id |-> id, result |-> result, error |-> "None"]

\* Mutant: the response is numbered by its place in the outbound queue.
DefinitionResponseNumbered(id) == OkResponse(Len(outbox) + 1, "[]")

\* main.rs 35-41: Some(GotoDefinitionResponse::Array(Vec::new())) is the JSON [].
DefinitionResponse(id) == OkResponse(id, "[]")

\* Mutant: the references arm answers with an error and no result.
ReferencesResponseError(id) ==
    [kind |-> "Response", id |-> id, result |-> "None", error |-> "MethodNotFound"]

\* main.rs 51-57: Some(Vec::<String>::new()) is the JSON [].
ReferencesResponse(id) == OkResponse(id, "[]")

\* Connection::handle_shutdown: Response::new_ok(req.id.clone(), ()).
ShutdownResponse(id) == OkResponse(id, "null")

\* Mutant: the line is built from the column and the column from the line.
LspPositionSwapped(p) == [line |-> p.col, character |-> p.line]

\* main.rs 83-87 and 88-92: a tan position as an lsp_types::Position.
LspPosition(p) == [line |-> p.line, character |-> p.col]

\* main.rs 83-87 and 88-92: an endpoint of a diagnostic's range, from a byte
\* offset of the parser into the text read.
EndpointOf(offset, input) == LspPosition(Position_from(offset, input))

\* Mutant: the end of the range is translated from the start offset.
DiagnosticOfStartTwice(error, input) ==
    [range |-> [start |-> LspPosition(Position_from(error.start, input)),
                end |-> LspPosition(Position_from(error.start, input))],
     message |-> error.message]

\* main.rs 83-104: the diagnostic of one parser error against the text read.
DiagnosticOf(error, input) ==
    [range |-> [start |-> LspPosition(Position_from(error.start, input)),
                end |-> LspPosition(Position_from(error.end, input))],
     message |-> error.message]

\* The diagnostics of the notification sent last, if any.
LastDiagnostics ==
    IF attempts # <<>> /\ attempts[Len(attempts)].msg.kind = "Notification"
    THEN attempts[Len(attempts)].msg.params.diagnostics
    ELSE <<>>

\* Mutant: nothing is rebuilt for a file that parses: the list sent last is sent again.
DiagnosticsOfKeepsLast(res, input) ==
    IF res.ok THEN LastDiagnostics
    ELSE [i \in 1..Len(res.errors) |-> DiagnosticOf(res.errors[i], input)]

\* Mutant: the list lives across iterations and is never emptied.
DiagnosticsOfAccumulating(res, input) ==
    LastDiagnostics \o
      (IF res.ok THEN <<>>
       ELSE [i \in 1..Len(res.errors) |-> DiagnosticOf(res.errors[i], input)])

\* main.rs 79-106: the diagnostics of a parse result, in the parser's order.
DiagnosticsOf(res, input) ==
    IF res.ok THEN <<>>
    ELSE [i \in 1..Len(res.errors) |-> DiagnosticOf(res.errors[i], input)]

\* Mutant: every notification of a change list names the list's first file.
PublishNotificationFirstUri(uri, diagnostics) ==
    [kind |-> "Notification", method |-> PublishDiagnostics,
     params |-> [uri |-> pulled[Len(pulled)].params.changes[1],
                 diagnostics |-> diagnostics, version |-> "None"]]

\* main.rs 108-117: the publishDiagnostics notification of one changed file.
PublishNotification(uri, diagnostics) ==
    [kind |-> "Notification", method |-> PublishDiagnostics,
     params |-> [uri |-> uri, diagnostics |-> diagnostics, version |-> "None"]]

\* Mutant: the message is put at the front of the outbound queue.
SendPrepends(msg, up, cause, entry) ==
    /\ outUp' = up
    /\ outbox' = IF up THEN <<msg>> \o outbox ELSE outbox
    /\ attempts' = <<[msg |-> msg, ok |-> up, cause |-> cause, entry |-> entry]>> \o attempts

(***************************************************************************)
(* connection.sender.send(msg): the message is placed on the outbound      *)
(* queue (up), or the call fails because the transport's writer thread has *)
(* ended and dropped the queue's receiving end; once dropped it stays      *)
(* dropped.  cause is the number of the inbound message being dispatched,  *)
(* entry the number of the change-list entry (0 for a response).           *)
(***************************************************************************)
Send(msg, up, cause, entry) ==
    /\ outUp' = up
    /\ outbox' = IF up THEN Append(outbox, msg) ELSE outbox
    /\ attempts' = Append(attempts, [msg |-> msg, ok |-> up, cause |-> cause, entry |-> entry])

\* The outcomes a send can have now: the writer thread may have ended meanwhile.
SendOutcomes == IF outUp THEN {TRUE, FALSE} ELSE {FALSE}

\* for msg in &connection.receiver: the loop takes the head of the inbound queue.
Pull ==
    /\ pc = "recv"
    /\ inbox # <<>>
    /\ inbox' = Tail(inbox)
    /\ pulled' = Append(pulled, Head(inbox))

\* Mutant: the continue after the goto-definition reply is missing, so the
\* request is offered to the references extractor as well.
DispatchNoContinue(req) ==
    LET first == clone(req)
        def == cast(first, GotoDefinition)
        second == clone(def.req)
        ref == cast(second, References)
    IN  CASE def.tag = "Ok" ->
               [tried |-> <<GotoDefinition, References>>, given |-> <<first, second>>,
                reply |-> <<DefinitionResponse(def.id)>>, panic |-> FALSE]
          [] def.tag = "JsonError" ->
               [tried |-> <<GotoDefinition>>, given |-> <<first>>, reply |-> <<>>, panic |-> TRUE]
          [] def.tag = "MethodMismatch" /\ ref.tag = "Ok" ->
               [tried |-> <<GotoDefinition, References>>, given |-> <<first, second>>,
                reply |-> <<ReferencesResponse(ref.id)>>, panic |-> FALSE]
          [] def.tag = "MethodMismatch" /\ ref.tag = "JsonError" ->
               [tried |-> <<GotoDefinition, References>>, given |-> <<first, second>>,
                reply |-> <<>>, panic |-> TRUE]
          [] OTHER ->
               [tried |-> <<GotoDefinition, References>>, given |-> <<first, second>>,
                reply |-> <<>>, panic |-> FALSE]

\* Mutant: a request no extractor matches is answered with an empty result.
DispatchAnswersUnknown(req) ==
    LET first == clone(req)
        def == cast(first, GotoDefinition)
        second == clone(def.req)
        ref == cast(second, References)
    IN  CASE def.tag = "Ok" ->
               [tried |-> <<GotoDefinition>>, given |-> <<first>>,
                reply |-> <<DefinitionResponse(def.id)>>, panic |-> FALSE]
          [] def.tag = "JsonError" ->
               [tried |-> <<GotoDefinition>>, given |-> <<first>>, reply |-> <<>>, panic |-> TRUE]
          [] def.tag = "MethodMismatch" /\ ref.tag = "Ok" ->
               [tried |-> <<GotoDefinition, References>>, given |-> <<first, second>>,
                reply |-> <<ReferencesResponse(ref.id)>>, panic |-> FALSE]
          [] def.tag = "MethodMismatch" /\ ref.tag = "JsonError" ->
               [tried |-> <<GotoDefinition, References>>, given |-> <<first, second>>,
                reply |-> <<>>, panic |-> TRUE]
          [] OTHER ->
               [tried |-> <<GotoDefinition, References>>, given |-> <<first, second>>,
                reply |-> <<OkResponse(req.id, "null")>>, panic |-> FALSE]

(***************************************************************************)
(* main.rs 32-63: the extractor chain for a request that is not shutdown.  *)
(* tried lists the methods whose extractor was called, given the request   *)
(* each was called with, reply the response to send (none, or one), panic  *)
(* whether the chain panicked.  The references extractor is called with a  *)
(* clone of the request the goto-definition mismatch gave back.            *)
(***************************************************************************)
Dispatch(req) ==
    LET first == clone(req)
        def == cast(first, GotoDefinition)
        second == clone(def.req)
        ref == cast(second, References)
    IN  CASE def.tag = "Ok" ->
               [tried |-> <<GotoDefinition>>, given |-> <<first>>,
                reply |-> <<DefinitionResponse(def.id)>>, panic |-> FALSE]
          [] def.tag = "JsonError" ->
               [tried |-> <<GotoDefinition>>, given |-> <<first>>, reply |-> <<>>, panic |-> TRUE]
          [] def.tag = "MethodMismatch" /\ ref.tag = "Ok" ->
               [tried |-> <<GotoDefinition, References>>, given |-> <<first, second>>,
                reply |-> <<ReferencesResponse(ref.id)>>, panic |-> FALSE]
          [] def.tag = "MethodMismatch" /\ ref.tag = "JsonError" ->
               [tried |-> <<GotoDefinition, References>>, given |-> <<first, second>>,
                reply |-> <<>>, panic |-> TRUE]
          [] OTHER ->
               [tried |-> <<GotoDefinition, References>>, given |-> <<first, second>>,
                reply |-> <<>>, panic |-> FALSE]

\* main.rs 26-65: one request that is not the shutdown request.
HandleRequest ==
    /\ Pull
    /\ Head(inbox).kind = "Request"
    /\ ~is_shutdown(Head(inbox))
    /\ LET req == Head(inbox)
           n == Len(pulled) + 1
           o == Dispatch(req)
       IN  /\ casts' = casts \o
                 [i \in 1..Len(o.tried) |->
                     [cause |-> n, method |-> o.tried[i], req |-> o.given[i],
                      tag |-> cast(o.given[i], o.tried[i]).tag,
                      back |-> cast(o.given[i], o.tried[i]).req]]
           /\ IF o.reply = <<>>
              THEN /\ pc' = IF o.panic THEN "panic" ELSE "recv"
                   /\ UNCHANGED <<outbox, outUp, attempts>>
              ELSE \E up \in SendOutcomes :
                      /\ Send(o.reply[1], up, n, 0)
                      /\ pc' = IF up THEN "recv" ELSE "err"
    /\ UNCHANGED <<pending, reads, envVars, mainVars, posVars>>

(***************************************************************************)
(* main.rs 28-30, connection.handle_shutdown(&req) on a shutdown request:  *)
(* it sends the acknowledgement, ignoring a failed send, and then waits    *)
(* for the next inbound message, which must be the exit notification.      *)
(***************************************************************************)
HandleShutdown ==
    /\ Pull
    /\ Head(inbox).kind = "Request"
    /\ is_shutdown(Head(inbox))
    /\ \E up \in SendOutcomes :
          Send(ShutdownResponse(Head(inbox).id), up, Len(pulled) + 1, 0)
    /\ pc' = "shutdown_wait"
    /\ UNCHANGED <<pending, casts, reads, envVars, mainVars, posVars>>

\* handle_shutdown's recv_timeout got a message: Ok(true) on exit, else an error.
ShutdownRecv ==
    /\ pc = "shutdown_wait"
    /\ inbox # <<>>
    /\ inbox' = Tail(inbox)
    /\ pc' = IF is_exit(Head(inbox)) THEN "ok" ELSE "err"
    /\ UNCHANGED <<outbox, outUp, pending, pulled, casts, attempts, reads,
                   envVars, mainVars, posVars>>

\* handle_shutdown's recv_timeout timed out or found the queue closed: an error.
ShutdownTimeout ==
    /\ pc = "shutdown_wait"
    /\ inbox = <<>>
    /\ pc' = "err"
    /\ UNCHANGED <<inbox, outbox, outUp, pending, pulled, casts, attempts, reads,
                   envVars, mainVars, posVars>>

\* main.rs 66-68: an inbound response is traced and dropped.
HandleResponse ==
    /\ Pull
    /\ Head(inbox).kind = "Response"
    /\ UNCHANGED <<outbox, outUp, pc, pending, casts, attempts, reads,
                   envVars, mainVars, posVars>>

(***************************************************************************)
(* main.rs 69-74: a notification.  Only a didChangeWatchedFiles            *)
(* notification whose parameters deserialize enters the loop over its      *)
(* changes; any other outcome of extract falls through the if let.  The    *)
(* iterations of that loop are steps of their own (PublishChange), since   *)
(* each reads the file system as it is when the iteration runs.            *)
(***************************************************************************)
HandleNotification ==
    /\ Pull
    /\ Head(inbox).kind = "Notification"
    /\ LET event == extract(Head(inbox), DidChangeWatchedFiles)
           changes == IF event.tag = "Ok" THEN event.req.params.changes ELSE <<>>
       IN  /\ pending' = changes
           /\ pc' = IF changes # <<>> THEN "changes" ELSE "recv"
    /\ UNCHANGED <<outbox, outUp, casts, attempts, reads, envVars, mainVars, posVars>>

\* Mutant: a file that cannot be read is skipped and the loop goes on.
ChangeOutcomeSkipsUnreadable(readable, up, changes) ==
    IF readable /\ ~up THEN [pc |-> "err", pending |-> <<>>]
    ELSE IF Tail(changes) = <<>> THEN [pc |-> "recv", pending |-> <<>>]
    ELSE [pc |-> "changes", pending |-> Tail(changes)]

(***************************************************************************)
(* main.rs 76, 121 and 123: how one iteration over event.changes ends.  A  *)
(* failed read and a failed send leave run() through the ? operator;       *)
(* otherwise the loop goes on with the rest of the changes, and back to    *)
(* the inbound queue when none is left.                                    *)
(***************************************************************************)
ChangeOutcome(readable, up, changes) ==
    IF ~readable \/ ~up THEN [pc |-> "err", pending |-> <<>>]
    ELSE IF Tail(changes) = <<>> THEN [pc |-> "recv", pending |-> <<>>]
    ELSE [pc |-> "changes", pending |-> Tail(changes)]

\* Mutant: the loop takes the changes from the end of the list.
NextChangeLast(changes) == changes[Len(changes)]

\* main.rs 74: for change in event.changes takes the changes in list order.
NextChange(changes) == Head(changes)

(***************************************************************************)
(* main.rs 74-124: one iteration of the loop over event.changes: read the  *)
(* file, parse it, translate the errors, send the notification.            *)
(***************************************************************************)
PublishChange ==
    /\ pc = "changes"
    /\ LET change == NextChange(pending)
           n == Len(pulled)
           k == Len(pulled[n].params.changes) - Len(pending) + 1
           path == Uri_path(change)
           file == read_to_string(path)
           res == parse_string(file.text)
           notification == PublishNotification(change, DiagnosticsOf(res, file.text))
       IN  /\ reads' = Append(reads, [cause |-> n, entry |-> k, path |-> path, file |-> file])
           /\ IF ~file.readable
              THEN /\ pc' = ChangeOutcome(FALSE, outUp, pending).pc
                   /\ pending' = ChangeOutcome(FALSE, outUp, pending).pending
                   /\ UNCHANGED <<outbox, outUp, attempts>>
              ELSE \E up \in SendOutcomes :
                      /\ Send(notification, up, n, k)
                      /\ pc' = ChangeOutcome(TRUE, up, pending).pc
                      /\ pending' = ChangeOutcome(TRUE, up, pending).pending
    /\ UNCHANGED <<inbox, pulled, casts, envVars, mainVars, posVars>>

\* Mutant: a closed inbound queue is taken for an empty one and the loop waits on.
EndOfInputWaits ==
    /\ pc = "recv"
    /\ inbox = <<>>
    /\ inClosed
    /\ UNCHANGED vars

\* main.rs 23 and 128-129: the inbound queue is closed and empty; run() returns Ok.
EndOfInput ==
    /\ pc = "recv"
    /\ inbox = <<>>
    /\ inClosed
    /\ pc' = "ok"
    /\ UNCHANGED <<inbox, outbox, outUp, pending, pulled, casts, attempts, reads,
                   envVars, mainVars, posVars>>

(***************************************************************************)
(* main.rs 153-160: main() after run().  An error of run() leaves main()   *)
(* through the ? at line 153 and a panic unwinds through it; only after    *)
(* Ok does main() reach io_threads.join(), whose own result ends it.       *)
(***************************************************************************)
\* Mutant: main() goes on to the join whenever run() has returned.
RunReturned == pc \in {"ok", "err"}

\* main.rs 153: run(connection, initialization_params)? went on to line 156.
RunReturnedOk == pc = "ok"

MainJoin ==
    /\ mainPc = "run"
    /\ RunReturnedOk
    /\ mainPc' = "join"
    /\ UNCHANGED <<inbox, srvVars, envVars, posVars>>

\* main.rs 156-160: the transport threads have ended and join() returns.
JoinReturns ==
    /\ mainPc = "join"
    /\ \E joined \in BOOLEAN : mainPc' = IF joined THEN "stopped" ELSE "join_failed"
    /\ UNCHANGED <<inbox, srvVars, envVars, posVars>>

\* main.rs 153: run() returned an error or panicked; the process ends.
MainFails ==
    /\ mainPc = "run"
    /\ pc \in {"err", "panic"}
    /\ mainPc' = "failed"
    /\ UNCHANGED <<inbox, srvVars, envVars, posVars>>

(***************************************************************************)
(* The environment: the client, the transport threads, the file system.    *)
(* It is followed while run() is running: after run() has ended nothing of *)
(* the program looks at the inbound queue or at the files.                 *)
(***************************************************************************)
\* main.rs 21-129: run() has neither returned nor panicked.
InRun == pc \in {"recv", "changes", "shutdown_wait"}

ClientSendRequest ==
    /\ InRun
    /\ ~inClosed
    /\ nSent < MaxMsgs
    /\ \E shape \in RequestShapes :
          inbox' = Append(inbox, Request(nextId, shape[1], shape[2]))
    /\ nextId' = nextId + 1
    /\ nSent' = nSent + 1
    /\ UNCHANGED <<inClosed, fs, nWrites, srvVars, mainVars, posVars>>

ClientSendNotification ==
    /\ InRun
    /\ ~inClosed
    /\ nSent < MaxMsgs
    /\ \E shape \in NotificationShapes :
          inbox' = Append(inbox, Notification(shape[1], shape[2]))
    /\ nSent' = nSent + 1
    /\ UNCHANGED <<inClosed, fs, nextId, nWrites, srvVars, mainVars, posVars>>

ClientSendResponse ==
    /\ InRun
    /\ ~inClosed
    /\ nSent < MaxMsgs
    /\ inbox' = Append(inbox, InResponse(0))
    /\ nSent' = nSent + 1
    /\ UNCHANGED <<inClosed, fs, nextId, nWrites, srvVars, mainVars, posVars>>

\* The reader thread reaches the end of its input and closes the inbound queue.
CloseInbound ==
    /\ InRun
    /\ ~inClosed
    /\ inClosed' = TRUE
    /\ UNCHANGED <<inbox, fs, nextId, nSent, nWrites, srvVars, mainVars, posVars>>

\* Another process rewrites, creates or removes a watched file.
FsWrite ==
    /\ InRun
    /\ nWrites < MaxWrites
    /\ \E p \in Paths, f \in FileStates :
          /\ f # fs[p]
          /\ fs' = [fs EXCEPT ![p] = f]
    /\ nWrites' = nWrites + 1
    /\ UNCHANGED <<inbox, inClosed, nextId, nSent, srvVars, mainVars, posVars>>

Next ==
    \/ HandleRequest
    \/ HandleShutdown
    \/ ShutdownRecv
    \/ ShutdownTimeout
    \/ HandleResponse
    \/ HandleNotification
    \/ PublishChange
    \/ EndOfInput
    \/ MainJoin
    \/ JoinReturns
    \/ MainFails
    \/ ClientSendRequest
    \/ ClientSendNotification
    \/ ClientSendResponse
    \/ CloseInbound
    \/ FsWrite

Spec == Init /\ [][Next]_vars

(***************************************************************************)
(* The steps of run().  The dispatch thread keeps running: a step that     *)
(* stays possible is taken.  The blocking receive of main.rs 23 returns    *)
(* once a message is queued or the queue is closed, and the receive of     *)
(* handle_shutdown returns at its timeout at the latest.                   *)
(***************************************************************************)
RunStep ==
    \/ HandleRequest
    \/ HandleShutdown
    \/ ShutdownRecv
    \/ ShutdownTimeout
    \/ HandleResponse
    \/ HandleNotification
    \/ PublishChange
    \/ EndOfInput

\* The session at its start, with /b.tan readable or not.
FairInit ==
    /\ inbox = <<>>
    /\ inClosed = FALSE
    /\ outbox = <<>>
    /\ outUp = TRUE
    /\ \E f \in {File(TextOk), NoFile} :
          fs = [p \in Paths |-> IF p = "/a.tan" THEN File(TextTwo) ELSE f]
    /\ pc = "recv"
    /\ pending = <<>>
    /\ nextId = 1
    /\ nSent = 0
    /\ nWrites = 0
    /\ pulled = <<>>
    /\ casts = <<>>
    /\ attempts = <<>>
    /\ reads = <<>>
    /\ mainPc = "run"
    /\ posText = <<>>
    /\ posOffset = 0
    /\ posResult = NoPosition

\* run() and its client, with the files left as they are at the start.
FairNext ==
    \/ RunStep
    \/ ClientSendRequest
    \/ ClientSendNotification
    \/ ClientSendResponse
    \/ CloseInbound

FairSpec == FairInit /\ [][FairNext]_vars /\ WF_vars(RunStep)

(***************************************************************************)
(* The translation of offsets on its own: every ASCII text up to           *)
(* MaxTextLen characters over PosChars and every boundary offset into it,  *)
(* the end of the text included.                                           *)
(***************************************************************************)
PosChars == {"a", "(", "\n"}
PosTexts == SeqsUpTo(PosChars, MaxTextLen)

PosInit ==
    /\ RunInit
    /\ posText \in PosTexts
    /\ posOffset \in 0..Len(posText)
    /\ posResult = NoPosition

\* main.rs 83-92: the offset is translated against the text.
Translate ==
    /\ posResult = NoPosition
    /\ posResult' = EndpointOf(posOffset, posText)
    /\ UNCHANGED <<inbox, srvVars, envVars, mainVars, posText, posOffset>>

PosNext == Translate

PosSpec == PosInit /\ [][PosNext]_vars

(***************************************************************************)
(* Reading the history.                                                    *)
(***************************************************************************)
AttemptsOf(n) == SelectSeq(attempts, LAMBDA a : a.cause = n)
CastsOf(n) == SelectSeq(casts, LAMBDA c : c.cause = n)
ReadsOf(n) == SelectSeq(reads, LAMBDA r : r.cause = n)

Placed == SelectSeq(attempts, LAMBDA a : a.ok)

\* The outbound queue holds exactly the messages whose send succeeded, in order.
OutboxIsPlaced ==
    /\ Len(outbox) = Len(Placed)
    /\ \A i \in DOMAIN outbox : outbox[i] = Placed[i].msg

Terminated == pc \in {"ok", "err", "panic"}

IsRequestFor(m, methods) == m.kind = "Request" /\ m.method \in methods

\* A goto-definition or references request whose parameters deserialize.
WellFormedRequest(m) ==
    /\ IsRequestFor(m, {GotoDefinition, References})
    /\ DeserializesAs(m.method, m.params)

\* A goto-definition or references request whose parameters do not deserialize.
MalformedRequest(m) ==
    /\ IsRequestFor(m, {GotoDefinition, References})
    /\ ~DeserializesAs(m.method, m.params)

UnknownRequest(m) ==
    m.kind = "Request" /\ m.method \notin {Shutdown, GotoDefinition, References}

ResponsesWithId(id) == {i \in DOMAIN outbox : outbox[i].kind = "Response" /\ outbox[i].id = id}

(***************************************************************************)
(* C1: every response run() sends while it dispatches a request carries    *)
(* that request's identifier, and so does every response on the outbound   *)
(* queue: for a well-formed goto-definition or references request the      *)
(* response sent is the one with the request's identifier, and no response *)
(* with another identifier is ever sent.                                   *)
(***************************************************************************)
C1_ResponseIdIsRequestId ==
    /\ \A i \in DOMAIN attempts :
          attempts[i].msg.kind = "Response" =>
             /\ attempts[i].cause \in DOMAIN pulled
             /\ pulled[attempts[i].cause].kind = "Request"
             /\ attempts[i].msg.id = pulled[attempts[i].cause].id
    /\ \A n \in DOMAIN pulled :
          WellFormedRequest(pulled[n]) =>
             \A i \in DOMAIN AttemptsOf(n) :
                /\ AttemptsOf(n)[i].msg.kind = "Response"
                /\ AttemptsOf(n)[i].msg.id = pulled[n].id
    /\ \A i \in DOMAIN outbox :
          outbox[i].kind = "Response" =>
             \E n \in DOMAIN pulled : pulled[n].kind = "Request" /\ pulled[n].id = outbox[i].id

\* A references request that is not the first inbound message has been answered:
\* its identifier differs from its place in the inbound order.
C1_Witness ==
    \E n \in DOMAIN pulled :
       /\ pulled[n].method = References
       /\ WellFormedRequest(pulled[n])
       /\ pulled[n].id # n
       /\ \E i \in DOMAIN outbox :
             outbox[i] = OkResponse(pulled[n].id, "[]") /\ i # pulled[n].id

(***************************************************************************)
(* C2: a well-formed goto-definition or references request causes exactly  *)
(* one send, of a response, in the iteration that takes it.  The first     *)
(* extractor that matches ends the chain: a goto-definition request is     *)
(* never offered to the references extractor.  When the next inbound       *)
(* message is taken, exactly one response with the request's identifier is *)
(* on the outbound queue; the only other outcome is that the send failed,  *)
(* and then run() has returned the error and takes no further message.     *)
(***************************************************************************)
C2_ExactlyOneResponse ==
    \A n \in DOMAIN pulled :
       WellFormedRequest(pulled[n]) =>
          /\ Len(AttemptsOf(n)) = 1
          /\ AttemptsOf(n)[1].msg.kind = "Response"
          /\ Cardinality(ResponsesWithId(pulled[n].id)) = IF AttemptsOf(n)[1].ok THEN 1 ELSE 0
          /\ n < Len(pulled) => AttemptsOf(n)[1].ok
          /\ ~AttemptsOf(n)[1].ok => n = Len(pulled) /\ pc = "err"
          /\ (AttemptsOf(n)[1].ok /\ n = Len(pulled)) => pc \in {"recv", "ok"}
          /\ pulled[n].method = GotoDefinition =>
                /\ Len(CastsOf(n)) = 1
                /\ CastsOf(n)[1].method = GotoDefinition /\ CastsOf(n)[1].tag = "Ok"
          /\ pulled[n].method = References =>
                /\ Len(CastsOf(n)) = 2
                /\ CastsOf(n)[1].method = GotoDefinition
                /\ CastsOf(n)[1].tag = "MethodMismatch"
                /\ CastsOf(n)[2].method = References /\ CastsOf(n)[2].tag = "Ok"

\* A goto-definition request was answered and the next message has been taken.
C2_Witness ==
    \E n \in DOMAIN pulled :
       /\ WellFormedRequest(pulled[n])
       /\ pulled[n].method = GotoDefinition
       /\ n < Len(pulled)
       /\ Cardinality(ResponsesWithId(pulled[n].id)) = 1

(***************************************************************************)
(* C3: a request whose method is neither shutdown, goto-definition nor     *)
(* references causes no send at all, so neither a response nor an error    *)
(* response; no response with its identifier is on the outbound queue in   *)
(* any later state; and the loop is back at the inbound queue after it.    *)
(***************************************************************************)
C3_UnknownMethodUnanswered ==
    \A n \in DOMAIN pulled :
       UnknownRequest(pulled[n]) =>
          /\ AttemptsOf(n) = <<>>
          /\ ResponsesWithId(pulled[n].id) = {}
          /\ \A i \in DOMAIN attempts :
                attempts[i].msg.kind = "Response" => attempts[i].msg.id # pulled[n].id
          /\ n = Len(pulled) => pc \in {"recv", "ok"}

\* After a foo/bar request the loop took a later request and answered it.
C3_Witness ==
    \E n \in DOMAIN pulled :
       /\ UnknownRequest(pulled[n])
       /\ pulled[n].method = FooBar
       /\ \E m \in DOMAIN pulled :
             /\ m > n
             /\ WellFormedRequest(pulled[m])
             /\ ResponsesWithId(pulled[m].id) # {}

(***************************************************************************)
(* C4: a shutdown request is never offered to an extractor; exactly one    *)
(* send is made for it, of a response with its identifier; it is the last  *)
(* message the loop takes and its acknowledgement is the last message      *)
(* sent; run() never returns to the inbound loop after it.                 *)
(***************************************************************************)
C4_ShutdownEndsTheLoop ==
    \A n \in DOMAIN pulled :
       IsRequestFor(pulled[n], {Shutdown}) =>
          /\ CastsOf(n) = <<>>
          /\ Len(AttemptsOf(n)) = 1
          /\ AttemptsOf(n)[1].msg = ShutdownResponse(pulled[n].id)
          /\ attempts[Len(attempts)] = AttemptsOf(n)[1]
          /\ AttemptsOf(n)[1].ok => outbox[Len(outbox)] = ShutdownResponse(pulled[n].id)
          /\ n = Len(pulled)
          /\ pc \in {"shutdown_wait", "ok", "err"}
          /\ pending = <<>>

\* run() has returned after a shutdown whose acknowledgement is on the outbound
\* queue, and a request that arrived later is still on the inbound queue.
C4_Witness ==
    /\ pulled # <<>>
    /\ IsRequestFor(pulled[Len(pulled)], {Shutdown})
    /\ pc = "ok"
    /\ outbox # <<>>
    /\ outbox[Len(outbox)] = ShutdownResponse(pulled[Len(pulled)].id)
    /\ \E i \in DOMAIN inbox : WellFormedRequest(inbox[i])

(***************************************************************************)
(* More of the history: the change notifications and their iterations.     *)
(***************************************************************************)
\* A didChangeWatchedFiles notification whose parameters deserialize.
WellFormedChange(m) ==
    /\ m.kind = "Notification"
    /\ m.method = DidChangeWatchedFiles
    /\ DeserializesAs(DidChangeWatchedFiles, m.params)

\* The dispatch of the n-th inbound message is over.
Finished(n) == n < Len(pulled) \/ pc # "changes"

IsPublish(msg) == msg.kind = "Notification" /\ msg.method = PublishDiagnostics

\* The send attempts that publish diagnostics.
Publications == {i \in DOMAIN attempts : IsPublish(attempts[i].msg)}

\* The read made in the iteration that made the i-th send attempt.
ReadFor(i) ==
    CHOOSE r \in {reads[j] : j \in DOMAIN reads} :
       r.cause = attempts[i].cause /\ r.entry = attempts[i].entry

(***************************************************************************)
(* C5: for a well-formed didChangeWatchedFiles notification the sends are  *)
(* publishDiagnostics notifications, the j-th for the j-th entry of the    *)
(* change list, with that entry's URI and no version; there are never more *)
(* sends than entries; and when the dispatch is over, every file was       *)
(* readable and every send succeeded, there are exactly as many as entries *)
(* and all are on the outbound queue.                                      *)
(***************************************************************************)
C5_OnePublicationPerChange ==
    \A n \in DOMAIN pulled :
       WellFormedChange(pulled[n]) =>
          LET changes == pulled[n].params.changes
              A == AttemptsOf(n)
              R == ReadsOf(n)
          IN  /\ Len(A) <= Len(changes)
              /\ \A j \in DOMAIN A :
                    /\ A[j].entry = j
                    /\ IsPublish(A[j].msg)
                    /\ A[j].msg.params.uri = changes[j]
                    /\ A[j].msg.params.version = "None"
                    /\ A[j].ok => \E i \in DOMAIN outbox : outbox[i] = A[j].msg
              /\ ( /\ Finished(n)
                   /\ \A j \in DOMAIN R : R[j].file.readable
                   /\ \A j \in DOMAIN A : A[j].ok )
                 => Len(A) = Len(changes)

\* A change list of two different files was published in full.
C5_Witness ==
    \E n \in DOMAIN pulled :
       /\ WellFormedChange(pulled[n])
       /\ Len(pulled[n].params.changes) = 2
       /\ pulled[n].params.changes[1] # pulled[n].params.changes[2]
       /\ Finished(n)
       /\ Len(AttemptsOf(n)) = 2
       /\ \A j \in 1..2 : AttemptsOf(n)[j].ok

(***************************************************************************)
(* C6: every iteration that reads its file makes one send of a             *)
(* publishDiagnostics notification for that file, and when the text read   *)
(* parses the diagnostics list sent is empty, whatever was sent before.    *)
(***************************************************************************)
C6_ValidFileClearsDiagnostics ==
    \A j \in DOMAIN reads :
       reads[j].file.readable =>
          /\ Cardinality({i \in Publications :
                 attempts[i].cause = reads[j].cause /\ attempts[i].entry = reads[j].entry}) = 1
          /\ \A i \in Publications :
                (attempts[i].cause = reads[j].cause /\ attempts[i].entry = reads[j].entry) =>
                   /\ Uri_path(attempts[i].msg.params.uri) = reads[j].path
                   /\ parse_string(reads[j].file.text).ok =>
                         attempts[i].msg.params.diagnostics = <<>>

\* A file was published with diagnostics and later, once it parsed, with none.
C6_Witness ==
    \E i, j \in DOMAIN outbox :
       /\ i < j
       /\ IsPublish(outbox[i]) /\ IsPublish(outbox[j])
       /\ outbox[i].params.uri = outbox[j].params.uri
       /\ Len(outbox[i].params.diagnostics) = 2
       /\ outbox[j].params.diagnostics = <<>>

(***************************************************************************)
(* C7: when the parser answers the errors e1..ek for the text read in an   *)
(* iteration, the list sent in that iteration has k diagnostics, and the   *)
(* i-th has ei's message and, as its range, the positions of ei's start    *)
(* and end offsets in that same text.                                      *)
(***************************************************************************)
C7_DiagnosticsFollowParserErrors ==
    \A i \in Publications :
       LET input == ReadFor(i).file.text
           res == parse_string(input)
           diagnostics == attempts[i].msg.params.diagnostics
       IN  ~res.ok =>
              /\ Len(diagnostics) = Len(res.errors)
              /\ \A e \in DOMAIN res.errors :
                    /\ diagnostics[e].message = res.errors[e].message
                    /\ diagnostics[e].range.start.line = Position_from(res.errors[e].start, input).line
                    /\ diagnostics[e].range.start.character = Position_from(res.errors[e].start, input).col
                    /\ diagnostics[e].range.end.line = Position_from(res.errors[e].end, input).line
                    /\ diagnostics[e].range.end.character = Position_from(res.errors[e].end, input).col

\* The two errors of the text a!\n! were published: the first on line 0, the
\* second on line 1, and the one error of the unclosed text (a.
C7_Witness ==
    /\ \E i \in DOMAIN outbox :
          /\ IsPublish(outbox[i])
          /\ outbox[i].params.diagnostics =
                << [range |-> [start |-> [line |-> 0, character |-> 1],
                               end |-> [line |-> 0, character |-> 2]],
                    message |-> "unexpected token"],
                   [range |-> [start |-> [line |-> 1, character |-> 0],
                               end |-> [line |-> 1, character |-> 1]],
                    message |-> "unexpected token"] >>
    /\ \E i \in DOMAIN outbox :
          /\ IsPublish(outbox[i])
          /\ outbox[i].params.diagnostics =
                << [range |-> [start |-> [line |-> 0, character |-> 0],
                               end |-> [line |-> 0, character |-> 2]],
                    message |-> "unexpected end of input"] >>

(***************************************************************************)
(* C8: two publications of the same file for which the same text was read  *)
(* carry the same diagnostics list, whatever was dispatched in between.    *)
(***************************************************************************)
C8_SameContentSameDiagnostics ==
    \A i, j \in Publications :
       ( /\ attempts[i].msg.params.uri = attempts[j].msg.params.uri
         /\ ReadFor(i).file = ReadFor(j).file )
       => attempts[i].msg.params.diagnostics = attempts[j].msg.params.diagnostics

\* A file with two errors was published by two change notifications, a request
\* was answered in between, and no file was changed.
C8_Witness ==
    /\ nWrites = 0
    /\ \E i, j \in Publications :
          /\ attempts[i].cause + 1 < attempts[j].cause
          /\ attempts[i].ok /\ attempts[j].ok
          /\ attempts[i].msg.params.uri = attempts[j].msg.params.uri
          /\ Len(attempts[i].msg.params.diagnostics) = 2
          /\ attempts[i].msg.params.diagnostics = attempts[j].msg.params.diagnostics
          /\ WellFormedRequest(pulled[attempts[i].cause + 1])

(***************************************************************************)
(* C9: a goto-definition or references request whose parameters do not     *)
(* deserialize makes run() panic: nothing is sent for it, the extractor    *)
(* that failed is the last one called, and it is the last message taken.   *)
(***************************************************************************)
C9_MalformedRequestIsFatal ==
    \A n \in DOMAIN pulled :
       MalformedRequest(pulled[n]) =>
          /\ pc = "panic"
          /\ n = Len(pulled)
          /\ AttemptsOf(n) = <<>>
          /\ ResponsesWithId(pulled[n].id) = {}
          /\ CastsOf(n) # <<>>
          /\ CastsOf(n)[Len(CastsOf(n))].method = pulled[n].method
          /\ CastsOf(n)[Len(CastsOf(n))].tag = "JsonError"
          /\ casts[Len(casts)] = CastsOf(n)[Len(CastsOf(n))]
          /\ \A c \in 1..(Len(CastsOf(n)) - 1) : CastsOf(n)[c].tag = "MethodMismatch"

\* run() panicked on a malformed goto-definition request with a later request
\* still on the inbound queue.
C9_Witness ==
    /\ pc = "panic"
    /\ pulled[Len(pulled)].method = GotoDefinition
    /\ MalformedRequest(pulled[Len(pulled)])
    /\ \E i \in DOMAIN inbox : WellFormedRequest(inbox[i])

(***************************************************************************)
(* C10: a read that fails is the last thing run() does: it has returned    *)
(* the error, nothing is sent for that entry or for a later entry, no      *)
(* later entry is read and no later inbound message is taken.              *)
(***************************************************************************)
C10_ReadFailureIsFatal ==
    \A j \in DOMAIN reads :
       ~reads[j].file.readable =>
          /\ pc = "err"
          /\ j = Len(reads)
          /\ reads[j].cause = Len(pulled)
          /\ pending = <<>>
          /\ \A i \in DOMAIN attempts :
                \/ attempts[i].cause < reads[j].cause
                \/ attempts[i].cause = reads[j].cause /\ attempts[i].entry < reads[j].entry

\* The first file of a list of two could not be read: run() has returned the
\* error with the second entry unread and a later message on the inbound queue.
C10_Witness ==
    /\ pc = "err"
    /\ reads # <<>>
    /\ ~reads[Len(reads)].file.readable
    /\ reads[Len(reads)].entry = 1
    /\ Len(pulled[Len(pulled)].params.changes) = 2
    /\ inbox # <<>>

\* A didChangeWatchedFiles notification whose parameters do not deserialize.
MalformedChange(m) ==
    /\ m.kind = "Notification"
    /\ m.method = DidChangeWatchedFiles
    /\ ~DeserializesAs(m.method, m.params)

(***************************************************************************)
(* C11: a didChangeWatchedFiles notification whose parameters do not       *)
(* deserialize ends run() with an error: it is the last message taken and  *)
(* the loop does not go on to a later message.                             *)
(***************************************************************************)
C11_MalformedChangeIsFatal ==
    \A n \in DOMAIN pulled :
       MalformedChange(pulled[n]) =>
          /\ n = Len(pulled)
          /\ pc \in {"err", "panic"}

\* The place in the order of taking of the request a response answers.
RequestPlace(id) ==
    CHOOSE n \in DOMAIN pulled : pulled[n].kind = "Request" /\ pulled[n].id = id

(***************************************************************************)
(* C12: the inbound messages are handled one at a time and to completion.  *)
(* Every send, read and extractor call is made for a message already       *)
(* taken, and in the order of taking: nothing is done for the i-th message *)
(* after something was done for a later one, and the loop over a change    *)
(* list is only ever in progress for the message taken last.  Hence the    *)
(* outbound queue holds what the i-th message caused before what the       *)
(* (i+1)-th caused, and the responses in the order of their requests.      *)
(***************************************************************************)
C12_OutputsInInboundOrder ==
    /\ OutboxIsPlaced
    /\ \A i \in DOMAIN attempts : attempts[i].cause \in DOMAIN pulled
    /\ \A i, j \in DOMAIN attempts : i < j => attempts[i].cause <= attempts[j].cause
    /\ \A i, j \in DOMAIN reads : i < j => reads[i].cause <= reads[j].cause
    /\ \A i, j \in DOMAIN casts : i < j => casts[i].cause <= casts[j].cause
    /\ pc = "changes" <=> pending # <<>>
    /\ \A n \in DOMAIN pulled :
          (n < Len(pulled) /\ WellFormedChange(pulled[n])) =>
             /\ Len(ReadsOf(n)) = Len(pulled[n].params.changes)
             /\ Len(AttemptsOf(n)) = Len(pulled[n].params.changes)
    /\ \A i, j \in DOMAIN outbox :
          (i < j /\ outbox[i].kind = "Response" /\ outbox[j].kind = "Response") =>
             /\ \E n \in DOMAIN pulled : pulled[n].kind = "Request" /\ pulled[n].id = outbox[i].id
             /\ \E n \in DOMAIN pulled : pulled[n].kind = "Request" /\ pulled[n].id = outbox[j].id
             /\ RequestPlace(outbox[i].id) < RequestPlace(outbox[j].id)

\* A change list of two files and then a request were handled: the outbound
\* queue holds the two notifications of the first and then the response.
C12_Witness ==
    /\ Len(outbox) = 3
    /\ attempts[1].cause = 1 /\ attempts[2].cause = 1 /\ attempts[3].cause = 2
    /\ IsPublish(outbox[1]) /\ IsPublish(outbox[2])
    /\ outbox[3].kind = "Response"
    /\ pulled[2].kind = "Request"

\* Nothing fatal has happened and no shutdown request was taken.
NoFatalNoShutdown ==
    /\ \A n \in DOMAIN pulled :
          ~MalformedRequest(pulled[n]) /\ ~IsRequestFor(pulled[n], {Shutdown})
    /\ \A j \in DOMAIN reads : reads[j].file.readable
    /\ \A i \in DOMAIN attempts : attempts[i].ok

(***************************************************************************)
(* C13: once the transport has closed the inbound queue, run() ends: it    *)
(* never waits forever on the closed queue.  When it has ended after the   *)
(* close with no fatal error and no shutdown request, it has returned Ok,  *)
(* the inbound queue is empty and every message the client had queued was  *)
(* taken and dispatched.                                                   *)
(***************************************************************************)
C13_EndOfInputEndsTheLoop ==
    /\ inClosed ~> Terminated
    /\ []((inClosed /\ Terminated /\ NoFatalNoShutdown) =>
             /\ pc = "ok"
             /\ inbox = <<>>
             /\ pending = <<>>
             /\ Len(pulled) = nSent)

\* run() returned Ok at the end of input after it had dispatched three messages
\* and answered at least two of them.
C13_Witness ==
    /\ pc = "ok"
    /\ inClosed
    /\ NoFatalNoShutdown
    /\ Len(pulled) = 3
    /\ Len(outbox) >= 2

\* The line terminators of the text strictly before the boundary offset o.
TerminatorsBefore(text, o) == {i \in 1..o : text[i] = "\n"}

\* The offset at which the line containing the boundary offset o starts.
StartOfLine(text, o) ==
    CHOOSE s \in 0..o :
       /\ s = 0 \/ text[s] = "\n"
       /\ \A i \in (s + 1)..o : text[i] # "\n"

(***************************************************************************)
(* C14: the position built for a boundary offset o of a text, the end of   *)
(* the text included, has as its line the number of line terminators       *)
(* strictly before o and as its character the distance from the start of   *)
(* the line containing o to o; the line is 0 in a text without line        *)
(* terminators.                                                            *)
(***************************************************************************)
C14_PositionOfOffset ==
    posResult # NoPosition =>
       /\ posResult.line = Cardinality(TerminatorsBefore(posText, posOffset))
       /\ posResult.character = posOffset - StartOfLine(posText, posOffset)
       /\ (\A i \in DOMAIN posText : posText[i] # "\n") =>
             posResult.line = 0 /\ posResult.character = posOffset

\* The end of a three-character text whose second character ends a line:
\* line 1, character 1.
C14_Witness ==
    /\ posResult # NoPosition
    /\ Len(posText) = 3
    /\ posOffset = Len(posText)
    /\ posText[2] = "\n" /\ posText[1] # "\n" /\ posText[3] # "\n"
    /\ posResult = [line |-> 1, character |-> 1]

\* A send made by run() itself (main.rs 42, 58, 119-121), not the acknowledgement
\* that Connection::handle_shutdown sends for a shutdown request.
SentByRun(a) == ~IsRequestFor(pulled[a.cause], {Shutdown})

\* A fatal error has happened: a request with malformed parameters was
\* dispatched, a file could not be read, or a send of run() has failed.
FatalError ==
    \/ \E n \in DOMAIN pulled : MalformedRequest(pulled[n])
    \/ \E j \in DOMAIN reads : ~reads[j].file.readable
    \/ \E i \in DOMAIN attempts : ~attempts[i].ok /\ SentByRun(attempts[i])

(***************************************************************************)
(* C15: main() goes on to io_threads.join() exactly when run() has         *)
(* returned Ok: it has joined only after Ok, it has ended without the join *)
(* only after an error or a panic of run(), and after Ok the join is its   *)
(* next step.  A fatal error ends run() at once with an error or a panic,  *)
(* main() never reaches the join after it, and from then on nothing is     *)
(* sent, read or taken from the inbound queue.                             *)
(***************************************************************************)
C15_JoinOnlyAfterOk ==
    /\ [](/\ mainPc \in {"join", "stopped", "join_failed"} => pc = "ok"
          /\ mainPc = "failed" => pc \in {"err", "panic"}
          /\ (pc = "ok" /\ mainPc = "run") => ENABLED MainJoin
          /\ FatalError => (pc \in {"err", "panic"} /\ mainPc \in {"run", "failed"}))
    /\ [][FatalError => UNCHANGED <<outbox, attempts, pulled, reads, casts, pc>>]_vars

\* A shutdown request was acknowledged, the exit notification followed, run()
\* returned Ok and main() has joined the transport threads.
C15_Witness ==
    /\ mainPc = "stopped"
    /\ pc = "ok"
    /\ pulled # <<>>
    /\ IsRequestFor(pulled[Len(pulled)], {Shutdown})
    /\ outbox # <<>>
    /\ outbox[Len(outbox)] = ShutdownResponse(pulled[Len(pulled)].id)

(***************************************************************************)
(* C16: every extractor is called with the request as it was taken from    *)
(* the inbound queue, and a method mismatch gives that same request back.  *)
(* In particular the references extractor is only called after a method    *)
(* mismatch of the goto-definition extractor for the same request, and     *)
(* with a request that has the identifier, method and parameters of the    *)
(* one taken.                                                              *)
(***************************************************************************)
C16_ExtractorChainIsLossless ==
    \A c \in DOMAIN casts :
       LET original == pulled[casts[c].cause]
       IN  /\ casts[c].req = original
           /\ casts[c].tag = "MethodMismatch" => casts[c].back = original
           /\ casts[c].method = References =>
                 /\ c > 1
                 /\ casts[c - 1].cause = casts[c].cause
                 /\ casts[c - 1].method = GotoDefinition
                 /\ casts[c - 1].tag = "MethodMismatch"
                 /\ casts[c].req.id = original.id
                 /\ casts[c].req.method = original.method
                 /\ casts[c].req.params = original.params

\* A references request with its parameters went through the goto-definition
\* mismatch and was answered by the references arm.
C16_Witness ==
    \E c \in DOMAIN casts :
       /\ casts[c].method = References
       /\ casts[c].tag = "Ok"
       /\ casts[c].req.params = ReferenceParams
       /\ \E i \in DOMAIN outbox : outbox[i] = ReferencesResponse(casts[c].req.id)

(***************************************************************************)
(* C17: within one change notification the files are read and published    *)
(* in the order of the change list: the i-th read is of the i-th entry and *)
(* the i-th send carries the i-th entry's URI.  When the read of the k-th  *)
(* entry fails, exactly the notifications of the entries 1..k-1 were sent  *)
(* before it, in list order, none was or will be sent for the entries      *)
(* k..n, and run() has returned the error.                                 *)
(***************************************************************************)
C17_PublishedInListOrder ==
    \A n \in DOMAIN pulled :
       WellFormedChange(pulled[n]) =>
          LET changes == pulled[n].params.changes
              A == AttemptsOf(n)
              R == ReadsOf(n)
          IN  /\ \A i \in DOMAIN R :
                    /\ R[i].entry = i
                    /\ i <= Len(changes)
                    /\ R[i].path = Uri_path(changes[i])
              /\ \A i \in DOMAIN A :
                    /\ A[i].entry = i
                    /\ IsPublish(A[i].msg)
                    /\ A[i].msg.params.uri = changes[i]
              /\ \A k \in DOMAIN R :
                    ~R[k].file.readable =>
                       /\ k = Len(R)
                       /\ Len(A) = k - 1
                       /\ \A i \in DOMAIN A : A[i].ok
                       /\ \A i \in DOMAIN A :
                             \E o \in DOMAIN outbox :
                                /\ outbox[o] = A[i].msg
                                /\ i > 1 => \E b \in 1..(o - 1) : outbox[b] = A[i - 1].msg
                       /\ pc = "err"
                       /\ n = Len(pulled)

\* The second of two listed files could not be read: the notification of the
\* first is on the outbound queue and run() has returned the error.
C17_Witness ==
    /\ pc = "err"
    /\ reads # <<>>
    /\ ~reads[Len(reads)].file.readable
    /\ reads[Len(reads)].entry = 2
    /\ pulled[Len(pulled)].params.changes[1] # pulled[Len(pulled)].params.changes[2]
    /\ Len(AttemptsOf(Len(pulled))) = 1
    /\ outbox # <<>>
    /\ outbox[Len(outbox)] = AttemptsOf(Len(pulled))[1].msg
    /\ outbox[Len(outbox)].params.uri = pulled[Len(pulled)].params.changes[1]

\* An inbound response, or a notification of a method other than
\* workspace/didChangeWatchedFiles.
Ignored(m) ==
    \/ m.kind = "Response"
    \/ m.kind = "Notification" /\ m.method # DidChangeWatchedFiles

(***************************************************************************)
(* C18: an inbound response, and a notification of a method other than     *)
(* workspace/didChangeWatchedFiles, is taken and dropped: no send, no read *)
(* and no extractor call is ever made for it, the step that takes it       *)
(* leaves the outbound queue as it is and run() at the head of its loop,   *)
(* ready for the next message.                                             *)
(***************************************************************************)
C18_IgnoredMessagesDoNothing ==
    /\ [](\A n \in DOMAIN pulled :
             Ignored(pulled[n]) =>
                /\ AttemptsOf(n) = <<>>
                /\ ReadsOf(n) = <<>>
                /\ CastsOf(n) = <<>>
                /\ n = Len(pulled) => (pc \in {"recv", "ok"} /\ pending = <<>>))
    /\ [][(pc = "recv" /\ inbox # <<>> /\ Ignored(Head(inbox)) /\ pulled' # pulled) =>
             /\ pulled' = Append(pulled, Head(inbox))
             /\ inbox' = Tail(inbox)
             /\ outbox' = outbox
             /\ attempts' = attempts
             /\ reads' = reads
             /\ pending' = <<>>
             /\ pc' = "recv"]_vars

\* A notification of another method, with parameters that look like a change
\* list, and a response were dropped, and the request after them was answered.
C18_Witness ==
    /\ Len(pulled) = 3
    /\ pulled[1].kind = "Notification"
    /\ pulled[1].method = OtherNotification
    /\ pulled[1].params.changes # <<>>
    /\ pulled[2].kind = "Response"
    /\ WellFormedRequest(pulled[3])
    /\ reads = <<>>
    /\ Len(attempts) = 1
    /\ attempts[1].cause = 3
    /\ Len(outbox) = 1

\* What run() sends: a response with a result and no error, or a
\* textDocument/publishDiagnostics notification.
AllowedOutbound(msg) ==
    \/ /\ msg.kind = "Response"
       /\ msg.result # "None"
       /\ msg.error = "None"
    \/ /\ msg.kind = "Notification"
       /\ msg.method = PublishDiagnostics

(***************************************************************************)
(* C19: every message on the outbound queue, and every message run() has   *)
(* tried to send, is a response with a result and no error or a            *)
(* textDocument/publishDiagnostics notification: never a request, never a  *)
(* response with an error.                                                 *)
(***************************************************************************)
C19_OnlyResultsAndDiagnostics ==
    /\ \A i \in DOMAIN outbox :
          /\ outbox[i].kind # "Request"
          /\ AllowedOutbound(outbox[i])
    /\ \A i \in DOMAIN attempts : AllowedOutbound(attempts[i].msg)

\* The outbound queue holds a goto-definition response, a references response
\* and a notification.
C19_Witness ==
    /\ \E i \in DOMAIN outbox :
          outbox[i].kind = "Response" /\ pulled[attempts[i].cause].method = GotoDefinition
    /\ \E i \in DOMAIN outbox :
          outbox[i].kind = "Response" /\ pulled[attempts[i].cause].method = References
    /\ \E i \in DOMAIN outbox : IsPublish(outbox[i])
    /\ \A i \in DOMAIN attempts : attempts[i].ok

====
